---- MODULE Spec2Model ----
(***************************************************************************)
(* Elden Ring dashboard frontend: the useFetchData hook, the explorer      *)
(* pages (bosses, armors) with their filter component, and the pagination  *)
(* arithmetic.  JavaScript objects are records, an absent field is a field *)
(* missing from the record's domain, null is the record Null, and a text   *)
(* is a sequence of characters.                                            *)
(***************************************************************************)
EXTENDS Integers, Sequences, FiniteSets, TLC

VARIABLES
    data,        \* useFetchData: useState(null)
    loading,     \* useFetchData: useState(false)
    error,       \* useFetchData: useState(null)
    inflight,    \* operations started by execute and not yet resolved, in issue order
    settled,     \* the operation that resolved most recently (Null if none)
    effectDeps,  \* explorer page: dependencies of the mount effect at its last run
    filters,     \* explorer page: useState({})
    pagination,  \* explorer page: useState({ skip: 0, limit: 20 })
    searchTerm,  \* filter component: useState('')
    backend,     \* what the backend holds for the filter it was last asked for
    event,       \* the page handler that ran most recently, with its argument
    dash,        \* dashboard page: the five requests of fetchDashboardData
    props,       \* the props handed to a presentational component
    rendered,    \* what that component rendered from them (Null before)
    http,        \* service layer: the requests the adapter has in flight
    served,      \* service layer: the calls that have returned or thrown
    api          \* api.js: the build's environment and the module's client

vars == <<data, loading, error, inflight, settled, effectDeps, filters,
          pagination, searchTerm, backend, event, dash, props, rendered,
          http, served, api>>

hookVars == <<data, loading, error>>
pageVars == <<effectDeps, filters, pagination, searchTerm, backend, event>>
dashVars == <<dash>>
renderVars == <<props, rendered>>
serviceVars == <<http, served, api>>

----------------------------------------------------------------------------
(* Bounds *)

MaxLen == 2          \* longest text typed into a filter input
MaxPages == 2        \* backend totals go up to MaxPages * limit + 1
MaxPending == 3      \* most operations in flight at once on a bare hook
MaxCalls == 2        \* most service calls made in one run of the service layer
MaxBosses == 2       \* longest list handed to a presentational component

(* Program constants *)

DefaultSkip == 0
DefaultLimit == 20

----------------------------------------------------------------------------
(* JavaScript values *)

Null == [kind |-> "null"]
EmptyObj == [k \in {} |-> k]

\* { ...f, ...g }
Spread(f, g) ==
    [k \in DOMAIN f \cup DOMAIN g |-> IF k \in DOMAIN g THEN g[k] ELSE f[k]]

Chars == {" ", "a"}
Texts == UNION {[1..n -> Chars] : n \in 0..MaxLen}

RECURSIVE TrimStart(_)
TrimStart(t) ==
    IF t # <<>> /\ Head(t) = " " THEN TrimStart(Tail(t)) ELSE t

RECURSIVE TrimEnd(_)
TrimEnd(t) ==
    IF t # <<>> /\ t[Len(t)] = " " THEN TrimEnd(SubSeq(t, 1, Len(t) - 1)) ELSE t

\* String.prototype.trim
Trim(t) == TrimEnd(TrimStart(t))

Errors == {[kind |-> "error", message |-> m] : m \in {"E1", "E2"}}

Min(a, b) == IF a < b THEN a ELSE b

\* Math.ceil(a / b) and Math.floor(a / b) for a >= 0, b > 0
Ceil(a, b) == (a + b - 1) \div b
Floor(a, b) == a \div b

----------------------------------------------------------------------------
(* The backend behind getBosses / getArmors, an external collaborator:     *)
(* for the filter it is asked for it holds `count` matching records, and   *)
(* answers a list request with the page of them and, normally, the total.  *)

Totals == {0, 12} \cup {k * DefaultLimit + d : k \in 1..MaxPages, d \in {0, 1}}

BackendShapes ==
    {[count |-> c, hasItems |-> TRUE, hasTotal |-> TRUE] : c \in Totals}
    \cup {[count |-> 12, hasItems |-> TRUE, hasTotal |-> FALSE],
          [count |-> 12, hasItems |-> FALSE, hasTotal |-> FALSE]}

PageItems(count, skip, limit) ==
    [i \in 1..(IF count > skip THEN Min(limit, count - skip) ELSE 0) |-> skip + i]

Response(shape, params) ==
    Spread(Spread([kind |-> "payload"],
                  IF shape.hasItems
                  THEN [items |-> PageItems(shape.count, params.skip, params.limit)]
                  ELSE EmptyObj),
           IF shape.hasTotal THEN [total |-> shape.count] ELSE EmptyObj)

\* values an operation handed to a bare hook may produce
HookValues ==
    {Response(s, [skip |-> DefaultSkip, limit |-> DefaultLimit]) :
        s \in {sh \in BackendShapes : sh.count = 12}}

----------------------------------------------------------------------------
(* api.js: the module is evaluated once, when it is first imported *)

BackendUrls == {"str:https://elden-ring-backend.onrender.com", "str:http://localhost:8000"}

\* import.meta.env of a build: VITE_API_BASE_URL set or left out
Envs == {EmptyObj} \cup {[VITE_API_BASE_URL |-> u] : u \in BackendUrls}

NotLoaded(env) == [env |-> env, loaded |-> FALSE]

\* api.js lines 4-12: API_BASE_URL = import.meta.env.VITE_API_BASE_URL;
\* axios.create({ baseURL: API_BASE_URL, headers }); an undefined baseURL is
\* a client without one
ApiModule(env) ==
    [env |-> env, loaded |-> TRUE,
     client |-> Spread([headers |-> [ContentType |-> "application/json"]],
                       IF "VITE_API_BASE_URL" \in DOMAIN env
                       THEN [baseURL |-> env.VITE_API_BASE_URL]
                       ELSE EmptyObj)]

----------------------------------------------------------------------------
(* useFetchData *)

Hook == [data |-> data, loading |-> loading, error |-> error]

SetHook(h) ==
    /\ data' = h.data
    /\ loading' = h.loading
    /\ error' = h.error

ExecuteStart_keepsLoading(h) == [h EXCEPT !.error = Null]

\* execute, lines 9-10: setLoading(true); setError(null)
ExecuteStart(h) == [h EXCEPT !.loading = TRUE, !.error = Null]

ExecuteSuccess_merges(h, result) ==
    [h EXCEPT !.data = IF h.data = Null THEN result ELSE Spread(h.data, result),
              !.loading = FALSE]

\* execute, lines 13 and 17: setData(result); finally setLoading(false)
ExecuteSuccess(h, result) == [h EXCEPT !.data = result, !.loading = FALSE]

ExecuteFailure_clearsData(h, err) ==
    [h EXCEPT !.data = Null, !.error = err, !.loading = FALSE]

\* execute, lines 15 and 17: setError(err); finally setLoading(false)
ExecuteFailure(h, err) == [h EXCEPT !.error = err, !.loading = FALSE]

\* the operation is started by `await serviceFunction(params)`
StartOperation(params) ==
    inflight' =
        Append([i \in 1..Len(inflight) |-> [inflight[i] EXCEPT !.overlap = TRUE]],
               [params |-> params, overlap |-> inflight # <<>>])

RemoveAt(s, i) == SubSeq(s, 1, i - 1) \o SubSeq(s, i + 1, Len(s))

\* execute(serviceFunction, params) up to the await
execute(params) ==
    /\ SetHook(ExecuteStart(Hook))
    /\ StartOperation(params)
    /\ UNCHANGED settled

\* the awaited operation i fulfils with result
Fulfil(i, result) ==
    /\ SetHook(ExecuteSuccess(Hook, result))
    /\ inflight' = RemoveAt(inflight, i)
    /\ settled' = [outcome |-> "ok", value |-> result,
                   params |-> inflight[i].params,
                   overlap |-> inflight[i].overlap, before |-> Hook]

\* the awaited operation i rejects with err
Reject(i, err) ==
    /\ SetHook(ExecuteFailure(Hook, err))
    /\ inflight' = RemoveAt(inflight, i)
    /\ settled' = [outcome |-> "failed", value |-> err,
                   params |-> inflight[i].params,
                   overlap |-> inflight[i].overlap, before |-> Hook]

----------------------------------------------------------------------------
(* A bare hook: any component may call execute at any time. *)

HookExecute ==
    /\ Len(inflight) < MaxPending
    /\ execute([skip |-> DefaultSkip, limit |-> DefaultLimit])
    /\ UNCHANGED <<pageVars, dashVars, renderVars, serviceVars>>

HookFulfil ==
    /\ \E i \in 1..Len(inflight), v \in HookValues : Fulfil(i, v)
    /\ UNCHANGED <<pageVars, dashVars, renderVars, serviceVars>>

HookReject ==
    /\ \E i \in 1..Len(inflight), e \in Errors : Reject(i, e)
    /\ UNCHANGED <<pageVars, dashVars, renderVars, serviceVars>>

Init ==
    /\ data = Null
    /\ loading = FALSE
    /\ error = Null
    /\ inflight = <<>>
    /\ settled = Null
    /\ effectDeps = [ran |-> FALSE]
    /\ filters = EmptyObj
    /\ pagination = [skip |-> DefaultSkip, limit |-> DefaultLimit]
    /\ searchTerm = <<>>
    /\ backend \in BackendShapes
    /\ event = [tick |-> FALSE, handler |-> "none", submitted |-> EmptyObj]
    /\ dash = [mounted |-> FALSE]
    /\ props = EmptyObj
    /\ rendered = Null
    /\ http = <<>>
    /\ served = <<>>
    /\ api = ApiModule([VITE_API_BASE_URL |-> "str:http://localhost:8000"])

HookInit ==
    /\ Init
    /\ backend = [count |-> 0, hasItems |-> TRUE, hasTotal |-> TRUE]

HookNext == HookExecute \/ HookFulfil \/ HookReject

SpecHook == HookInit /\ [][HookNext]_vars

----------------------------------------------------------------------------
(* ExploreBossesPage / ExploreArmorsPage with BossFilter / ArmorFilter *)

mounted == effectDeps.ran

\* lines 48-54: the spinner, the error line, or the page content
View ==
    IF loading THEN "spinner"
    ELSE IF error # Null THEN "error"
    ELSE "content"

Interactive_ignoresError == mounted /\ ~loading

\* lines 56-88 are reached, so the filter and the pagination exist, only in
\* the content view
Interactive == mounted /\ View = "content"

Grid_ignoresEmpty(p) ==
    IF "items" \notin DOMAIN p
    THEN [noResults |-> TRUE, cards |-> <<>>]
    ELSE [noResults |-> FALSE, cards |-> p.items]

\* BossGrid, ArmorGrid, ClassGrid, WeaponGrid given the props p: the "no
\* results" paragraph when the list is absent or empty, else one card per
\* item (`cards` holds the item each card was given)
Grid(p) ==
    IF "items" \notin DOMAIN p \/ Len(p.items) = 0
    THEN [noResults |-> TRUE, cards |-> <<>>]
    ELSE [noResults |-> FALSE, cards |-> [i \in 1..Len(p.items) |-> p.items[i]]]

\* line 65: {data && data.items && <BossGrid bosses={data.items} />}
GridRendered == data # Null /\ "items" \in DOMAIN data

\* lines 48-88: what the page returns
PageRender ==
    IF loading THEN [view |-> "spinner"]
    ELSE IF error # Null THEN [view |-> "error", message |-> error.message]
    ELSE IF GridRendered
         THEN [view |-> "content", grid |-> Grid([items |-> data.items])]
         ELSE [view |-> "content"]

\* line 56
currentPage == Floor(pagination.skip, pagination.limit) + 1

totalItems_fromItems ==
    IF data # Null /\ "items" \in DOMAIN data THEN Len(data.items) ELSE 0

\* line 57: data?.total || 0
totalItems ==
    IF data = Null THEN 0
    ELSE IF "total" \notin DOMAIN data THEN 0
    ELSE IF data.total = 0 THEN 0
    ELSE data.total

\* line 58
totalPages == Ceil(totalItems, pagination.limit)

\* line 67
ControlsShown == Interactive /\ totalPages > 1

\* line 71
PreviousDisabled == currentPage = 1

NextDisabled_never == FALSE

\* line 81
NextDisabled == currentPage = totalPages

MountEffectDeps_data == <<data>>

\* line 22: the dependency list of the mount effect
MountEffectDeps == <<>>

RecordEvent(handler, extra) ==
    event' = Spread([tick |-> ~event.tick, handler |-> handler,
                     submitted |-> event.submitted], extra)

\* an effect runs after the first render and after a render that changed
\* one of its dependencies
MountEffectDue ==
    IF mounted THEN effectDeps.deps # MountEffectDeps ELSE TRUE

\* lines 13-17 and 20-22: useEffect(() => { execute(fetchBosses) }, [])
MountEffect ==
    /\ MountEffectDue
    /\ effectDeps' = [ran |-> TRUE, deps |-> MountEffectDeps]
    /\ execute(Spread(filters, pagination))
    /\ RecordEvent("useEffect", EmptyObj)
    /\ UNCHANGED <<filters, pagination, searchTerm, backend>>
    /\ UNCHANGED <<dashVars, renderVars, serviceVars>>

\* effects are flushed before the next event is handled
EffectsFlushed == ~MountEffectDue

FilterChangeParams_stalePagination(newFilters) == Spread(newFilters, pagination)

\* line 29
FilterChangeParams(newFilters) ==
    Spread(newFilters, [skip |-> 0, limit |-> 20])

handleFilterChange_keepsText(newFilters) ==
    /\ filters' = newFilters
    /\ pagination' = [skip |-> 0, limit |-> 20]
    /\ execute(Spread(newFilters, [skip |-> 0, limit |-> 20]))
    /\ backend' \in (IF newFilters = filters THEN {backend} ELSE BackendShapes)
    /\ RecordEvent("handleFilterChange",
                   [arg |-> newFilters, fromPage |-> currentPage,
                    submitted |-> newFilters, text |-> searchTerm])
    /\ UNCHANGED <<effectDeps, searchTerm>>

\* lines 25-32; the filter component is unmounted with the page content
handleFilterChange(newFilters) ==
    /\ filters' = newFilters
    /\ pagination' = [skip |-> 0, limit |-> 20]
    /\ execute(FilterChangeParams(newFilters))
    /\ searchTerm' = <<>>
    /\ backend' \in (IF newFilters = filters THEN {backend} ELSE BackendShapes)
    /\ RecordEvent("handleFilterChange",
                   [arg |-> newFilters, fromPage |-> currentPage,
                    submitted |-> newFilters, text |-> searchTerm])
    /\ UNCHANGED effectDeps

\* line 35
NewSkip(newPage) == (newPage - 1) * pagination.limit

PageChangeParams_currentSkip(newPage) == Spread(filters, pagination)

PageChangeParams_dropsFilters(newPage) ==
    [skip |-> NewSkip(newPage), limit |-> pagination.limit]

\* line 38
PageChangeParams(newPage) ==
    Spread(filters, [skip |-> NewSkip(newPage), limit |-> pagination.limit])

\* lines 34-41
handlePageChange(newPage) ==
    /\ pagination' = [pagination EXCEPT !.skip = NewSkip(newPage)]
    /\ execute(PageChangeParams(newPage))
    /\ searchTerm' = <<>>
    /\ RecordEvent("handlePageChange",
                   [arg |-> newPage, fromPage |-> currentPage,
                    shown |-> ControlsShown, pages |-> totalPages])
    /\ UNCHANGED <<filters, backend, effectDeps>>

handleInputChange_live(value) ==
    /\ searchTerm' = value
    /\ filters' = (IF Trim(value) # <<>> THEN [name |-> Trim(value)] ELSE EmptyObj)
    /\ UNCHANGED <<data, loading, error, inflight, settled, effectDeps,
                   pagination, backend, event>>

\* BossFilter lines 7-9
handleInputChange(value) ==
    /\ searchTerm' = value
    /\ UNCHANGED <<data, loading, error, inflight, settled, effectDeps,
                   filters, pagination, backend, event>>

cleanFilters_untrimmed ==
    IF Trim(searchTerm) # <<>> THEN [name |-> searchTerm] ELSE EmptyObj

\* BossFilter line 12
cleanFilters ==
    IF Trim(searchTerm) # <<>> THEN [name |-> Trim(searchTerm)] ELSE EmptyObj

\* BossFilter lines 11-14
handleSearch == handleFilterChange(cleanFilters)

\* BossFilter lines 22-25
handleClear == handleFilterChange(EmptyObj)

Keys == {"Enter", "a"}

\* BossFilter lines 16-20
handleKeyPress(key) ==
    IF key = "Enter" THEN handleSearch ELSE UNCHANGED vars

FilterInput ==
    /\ Interactive /\ EffectsFlushed
    /\ \E value \in Texts : handleInputChange(value)
    /\ UNCHANGED <<dashVars, renderVars, serviceVars>>

FilterSearch ==
    /\ Interactive /\ EffectsFlushed
    /\ handleSearch
    /\ UNCHANGED <<dashVars, renderVars, serviceVars>>

FilterKeyPress ==
    /\ Interactive /\ EffectsFlushed
    /\ \E key \in Keys : handleKeyPress(key)
    /\ UNCHANGED <<dashVars, renderVars, serviceVars>>

\* BossFilter lines 46-50: {searchTerm && <button ...>}
ClearShown == Interactive /\ searchTerm # <<>>

\* BossFilter line 46: the clear button exists only while there is text
FilterClear ==
    /\ Interactive /\ EffectsFlushed
    /\ searchTerm # <<>>
    /\ handleClear
    /\ UNCHANGED <<dashVars, renderVars, serviceVars>>

\* lines 69-75
PagePrevious ==
    /\ ControlsShown /\ EffectsFlushed
    /\ ~PreviousDisabled
    /\ handlePageChange(currentPage - 1)
    /\ UNCHANGED <<dashVars, renderVars, serviceVars>>

\* lines 79-85
PageNext ==
    /\ ControlsShown /\ EffectsFlushed
    /\ ~NextDisabled
    /\ handlePageChange(currentPage + 1)
    /\ UNCHANGED <<dashVars, renderVars, serviceVars>>

\* getBosses(params) returns response.data
PageFulfil ==
    /\ mounted
    /\ \E i \in 1..Len(inflight) : Fulfil(i, Response(backend, inflight[i].params))
    /\ UNCHANGED <<pageVars, dashVars, renderVars, serviceVars>>

\* getBosses(params) rethrows the adapter's error
PageReject ==
    /\ mounted
    /\ \E i \in 1..Len(inflight), e \in Errors : Reject(i, e)
    /\ UNCHANGED <<pageVars, dashVars, renderVars, serviceVars>>

Next ==
    \/ MountEffect
    \/ FilterInput
    \/ FilterSearch
    \/ FilterKeyPress
    \/ FilterClear
    \/ PagePrevious
    \/ PageNext
    \/ PageFulfil
    \/ PageReject

Spec == Init /\ [][Next]_vars

----------------------------------------------------------------------------
(* Service modules (weaponService, bossService, armorService, classService) *)
(* on top of the axios instance of api.js.  An argument list is a record.   *)

ServiceRequest_countsCalls(op, arg) ==
    [method |-> "GET", path |-> <<op>>,
     params |-> Spread(arg, [nonce |-> Len(served)])]

\* the request each service function hands to the adapter
ServiceRequest(op, arg) ==
    CASE op = "getWeapons" ->
            [method |-> "GET", path |-> <<"/weapons">>, params |-> arg]
      [] op = "getBosses" ->
            [method |-> "GET", path |-> <<"/bosses">>, params |-> arg]
      [] op = "getArmors" ->
            [method |-> "GET", path |-> <<"/armors">>, params |-> arg]
      [] op = "getClasses" ->
            [method |-> "GET", path |-> <<"/classes">>, params |-> arg]
      [] op = "getWeaponCategories" ->
            [method |-> "GET", path |-> <<"/weapons", "/categories">>]
      [] op = "getWeaponStatistics" ->
            [method |-> "GET", path |-> <<"/weapons", "/statistics">>]
      [] op = "compareWeapons" ->
            [method |-> "POST", path |-> <<"/weapons", "/compare">>,
             body |-> [weapon_ids |-> arg.weaponIds]]
      [] op = "getWeaponsByBuild" ->
            [method |-> "GET", path |-> <<"/weapons", "/by-build/", arg.buildType>>]

\* `await api.get(...)`: the call is suspended on its one request
ServiceAwait(op, arg) ==
    [op |-> op, arg |-> arg, request |-> ServiceRequest(op, arg),
     sent |-> 1, state |-> "awaiting"]

\* api.js lines 16 and 17-21: the interceptors pass the response through and
\* reject with the error they were given
InterceptResponse(response) == response
InterceptError(err) == err

\* `return response.data`
ServiceReturn(c, response) ==
    Spread(c, [state |-> "returned", response |-> response,
               result |-> InterceptResponse(response).data])

ServiceCatch_retries(c, err) ==
    IF c.sent < 2
    THEN Spread(c, [sent |-> c.sent + 1, raised |-> err])
    ELSE Spread(c, [state |-> "thrown", raised |-> err, result |-> err])

\* `catch (error) { console.error(...); throw error; }`
ServiceCatch(c, err) ==
    Spread(c, [state |-> "thrown", raised |-> err,
               result |-> InterceptError(err)])

\* The backend, an external collaborator, answers from the data it holds
\* (`shape`), which no request of this read-only client changes.
ListParams(params) ==
    [skip |-> IF "skip" \in DOMAIN params THEN params.skip ELSE DefaultSkip,
     limit |-> IF "limit" \in DOMAIN params THEN params.limit ELSE DefaultLimit]

BackendAnswer(shape, request) ==
    IF Len(request.path) = 1
    THEN Response(IF "name" \in DOMAIN request.params
                  THEN [shape EXCEPT !.count = shape.count \div 2]
                  ELSE shape,
                  ListParams(request.params))
    ELSE [kind |-> "payload", path |-> request.path, count |-> shape.count]

ServiceCalls ==
    {[op |-> "getWeapons", arg |-> [limit |-> 1]],
     [op |-> "getBosses", arg |-> [limit |-> 500]],
     [op |-> "getBosses", arg |-> [name |-> <<"a">>, skip |-> 0, limit |-> 20]],
     [op |-> "getArmors", arg |-> [skip |-> 20, limit |-> 20]],
     [op |-> "getClasses", arg |-> [skip |-> 0, limit |-> 20]],
     [op |-> "getWeaponCategories", arg |-> EmptyObj],
     [op |-> "getWeaponStatistics", arg |-> EmptyObj],
     [op |-> "compareWeapons", arg |-> [weaponIds |-> <<1, 2>>]],
     [op |-> "getWeaponsByBuild", arg |-> [buildType |-> "strength"]]}

\* the first import of a service module evaluates api.js
ApiLoad ==
    /\ ~api.loaded
    /\ api' = ApiModule(api.env)
    /\ UNCHANGED <<http, served, hookVars, inflight, settled, pageVars, dashVars,
                   renderVars>>

ServiceCall ==
    /\ api.loaded
    /\ "client" \in DOMAIN api
    /\ Len(http) + Len(served) < MaxCalls
    /\ \E c \in ServiceCalls : http' = Append(http, ServiceAwait(c.op, c.arg))
    /\ UNCHANGED <<served, api, hookVars, inflight, settled, pageVars, dashVars,
                   renderVars>>

\* a call whose request was answered or failed either ends or, were the
\* request sent again, stays in flight
Settle(i, c) ==
    IF c.state = "awaiting"
    THEN /\ http' = [http EXCEPT ![i] = c]
         /\ UNCHANGED served
    ELSE /\ http' = RemoveAt(http, i)
         /\ served' = Append(served, c)

AdapterRespond ==
    /\ \E i \in 1..Len(http) :
        Settle(i, ServiceReturn(http[i],
                    [status |-> 200,
                     data |-> BackendAnswer(backend, http[i].request)]))
    /\ UNCHANGED <<api, hookVars, inflight, settled, pageVars, dashVars,
                   renderVars>>

AdapterFail ==
    /\ \E i \in 1..Len(http), e \in Errors : Settle(i, ServiceCatch(http[i], e))
    /\ UNCHANGED <<api, hookVars, inflight, settled, pageVars, dashVars,
                   renderVars>>

ServiceInit ==
    /\ data = Null
    /\ loading = FALSE
    /\ error = Null
    /\ inflight = <<>>
    /\ settled = Null
    /\ effectDeps = [ran |-> FALSE]
    /\ filters = EmptyObj
    /\ pagination = [skip |-> DefaultSkip, limit |-> DefaultLimit]
    /\ searchTerm = <<>>
    /\ backend \in {sh \in BackendShapes : sh.count = 41 \/ ~sh.hasTotal}
    /\ event = [tick |-> FALSE, handler |-> "none", submitted |-> EmptyObj]
    /\ dash = [mounted |-> FALSE]
    /\ props = EmptyObj
    /\ rendered = Null
    /\ http = <<>>
    /\ served = <<>>
    /\ api \in {NotLoaded(env) : env \in Envs}

ServiceNext == ApiLoad \/ ServiceCall \/ AdapterRespond \/ AdapterFail

SpecService == ServiceInit /\ [][ServiceNext]_vars

----------------------------------------------------------------------------
(* Presentational components: the grids, BossCarousels, AnalyticsCharts.    *)
(* A scalar of a boss record is written with its JavaScript type, as in     *)
(* "bool:true", "str:false", "num:1"; "undefined" is an absent field.       *)

Falsy == {"undefined", "null", "bool:false", "num:0", "str:"}

\* !!v
ToBoolean(v) == IF v \in Falsy THEN "bool:false" ELSE "bool:true"

Flags == {"bool:true", "bool:false", "str:false", "num:1", "undefined"}
Tiers == {"undefined", "str:", "str:S", "str:Unknown"}

BossRecords ==
    [has_great_rune : Flags, has_remembrance : {"bool:true", "str:false"},
     boss_tier : Tiers]

BossLists == UNION {[1..n -> BossRecords] : n \in 0..MaxBosses}

\* the list prop: absent, an array, or an array wrapped in an object {items}
ListProps ==
    {EmptyObj} \cup {[items |-> l] : l \in BossLists}
               \cup {[items |-> l, wrapped |-> TRUE] : l \in BossLists}

IsArray(p) == "items" \in DOMAIN p /\ "wrapped" \notin DOMAIN p

\* ClassCard.jsx line 41
bossesArray(p) == IF "items" \in DOMAIN p THEN p.items ELSE <<>>

\* ClassCard.jsx line 44: !!boss.has_great_rune === true
IsGreatRune(boss) == ToBoolean(boss.has_great_rune) = "bool:true"

\* ClassCard.jsx line 45: !!boss.has_remembrance === true
IsRemembrance(boss) == ToBoolean(boss.has_remembrance) = "bool:true"

\* ClassCard.jsx lines 39-45
BossCarousels(p) ==
    [greatRuneBosses |-> SelectSeq(bossesArray(p), IsGreatRune),
     remembranceBosses |-> SelectSeq(bossesArray(p), IsRemembrance)]

TierOf_raw(boss) == boss.boss_tier

\* ClassCard.jsx line 89: boss.boss_tier || 'Unknown'
TierOf(boss) ==
    IF boss.boss_tier \in Falsy THEN "str:Unknown" ELSE boss.boss_tier

\* ClassCard.jsx line 90: bossTierCounts[tier] = (bossTierCounts[tier] || 0) + 1,
\* the counter object kept in the order in which its keys were created
CountTier(counts, tier) ==
    IF \E i \in 1..Len(counts) : counts[i].name = tier
    THEN [i \in 1..Len(counts) |->
            IF counts[i].name = tier
            THEN [counts[i] EXCEPT !.value = counts[i].value + 1]
            ELSE counts[i]]
    ELSE Append(counts, [name |-> tier, value |-> 1])

\* ClassCard.jsx lines 84-99
RECURSIVE processBossTierData(_)
processBossTierData(bossesList) ==
    IF bossesList = <<>> THEN <<>>
    ELSE CountTier(processBossTierData(SubSeq(bossesList, 1, Len(bossesList) - 1)),
                   TierOf(bossesList[Len(bossesList)]))

\* ClassCard.jsx line 102
pieChartData(p) == IF IsArray(p) THEN processBossTierData(p.items) ELSE <<>>

RenderGrid ==
    /\ rendered = Null
    /\ "wrapped" \notin DOMAIN props
    /\ rendered' = [component |-> "Grid", out |-> Grid(props)]
    /\ UNCHANGED <<props, hookVars, inflight, settled, pageVars, dashVars,
                   serviceVars>>

RenderBossCarousels ==
    /\ rendered = Null
    /\ rendered' = [component |-> "BossCarousels", out |-> BossCarousels(props)]
    /\ UNCHANGED <<props, hookVars, inflight, settled, pageVars, dashVars,
                   serviceVars>>

RenderAnalyticsCharts ==
    /\ rendered = Null
    /\ rendered' = [component |-> "AnalyticsCharts", out |-> pieChartData(props)]
    /\ UNCHANGED <<props, hookVars, inflight, settled, pageVars, dashVars,
                   serviceVars>>

RenderInit ==
    /\ data = Null
    /\ loading = FALSE
    /\ error = Null
    /\ inflight = <<>>
    /\ settled = Null
    /\ effectDeps = [ran |-> FALSE]
    /\ filters = EmptyObj
    /\ pagination = [skip |-> DefaultSkip, limit |-> DefaultLimit]
    /\ searchTerm = <<>>
    /\ backend = [count |-> 0, hasItems |-> TRUE, hasTotal |-> TRUE]
    /\ event = [tick |-> FALSE, handler |-> "none", submitted |-> EmptyObj]
    /\ dash = [mounted |-> FALSE]
    /\ props \in ListProps
    /\ rendered = Null
    /\ http = <<>>
    /\ served = <<>>
    /\ api = ApiModule([VITE_API_BASE_URL |-> "str:http://localhost:8000"])

RenderNext == RenderGrid \/ RenderBossCarousels \/ RenderAnalyticsCharts

SpecRender == RenderInit /\ [][RenderNext]_vars

----------------------------------------------------------------------------
(* DashboardPage: five service calls joined by Promise.all, run as one      *)
(* operation of the fetch hook.                                             *)

\* DashboardPage.jsx lines 19-23, in the order of the array
DashboardCalls ==
    <<[op |-> "getWeapons", arg |-> [limit |-> 1]],
      [op |-> "getBosses", arg |-> [limit |-> 500]],
      [op |-> "getArmors", arg |-> [limit |-> 1]],
      [op |-> "getClasses", arg |-> [limit |-> 1]],
      [op |-> "getWeaponStatistics", arg |-> EmptyObj]>>

\* what the five endpoints may hold
DashShapes ==
    {[count |-> 12, hasItems |-> TRUE, hasTotal |-> TRUE],
     [count |-> 41, hasItems |-> TRUE, hasTotal |-> TRUE],
     [count |-> 12, hasItems |-> FALSE, hasTotal |-> FALSE]}

Pending == [state |-> "pending"]

PromiseAll_allSettled(join, calls) ==
    IF join.state # "pending" THEN join
    ELSE IF \A i \in 1..Len(calls) : calls[i].state # "awaiting"
    THEN [state |-> "fulfilled",
          value |-> [i \in 1..Len(calls) |-> calls[i].result]]
    ELSE join

\* Promise.all: rejected by the first call that throws, with its error;
\* fulfilled, with the results in the order of the array, once every call
\* has returned; settled once
PromiseAll(join, calls) ==
    IF join.state # "pending" THEN join
    ELSE IF \E i \in 1..Len(calls) : calls[i].state = "thrown"
    THEN [state |-> "rejected",
          reason |-> calls[CHOOSE i \in 1..Len(calls) :
                                calls[i].state = "thrown"].result]
    ELSE IF \A i \in 1..Len(calls) : calls[i].state = "returned"
    THEN [state |-> "fulfilled",
          value |-> [i \in 1..Len(calls) |-> calls[i].result]]
    ELSE join

\* { key: obj.field }, the key left out when the field is undefined
Pick(key, obj, field) ==
    IF field \in DOMAIN obj THEN [k \in {key} |-> obj[field]] ELSE EmptyObj

DashResult_swapsTotals(res) ==
    Spread(Spread(Spread(Spread(Spread(
        [kind |-> "payload", weaponStats |-> res[5]],
        Pick("totalWeapons", res[1], "total")),
        Pick("totalBosses", res[2], "total")),
        Pick("totalArmors", res[4], "total")),
        Pick("totalClasses", res[3], "total")),
        Pick("bosses", res[2], "items"))

\* DashboardPage.jsx lines 26-33
DashResult(res) ==
    Spread(Spread(Spread(Spread(Spread(
        [kind |-> "payload", weaponStats |-> res[5]],
        Pick("totalWeapons", res[1], "total")),
        Pick("totalBosses", res[2], "total")),
        Pick("totalArmors", res[3], "total")),
        Pick("totalClasses", res[4], "total")),
        Pick("bosses", res[2], "items"))

\* DashboardPage.jsx lines 47-52
kpis ==
    IF data = Null THEN <<>>
    ELSE <<Spread([title |-> "Total de Armas"], Pick("value", data, "totalWeapons")),
           Spread([title |-> "Total de Jefes"], Pick("value", data, "totalBosses")),
           Spread([title |-> "Total de Armaduras"], Pick("value", data, "totalArmors")),
           Spread([title |-> "Total de Clases"], Pick("value", data, "totalClasses"))>>

\* DashboardPage.jsx lines 39-74
DashRender ==
    IF loading THEN [view |-> "spinner"]
    ELSE IF error # Null THEN [view |-> "error", message |-> error.message]
    ELSE [view |-> "content",
          kpis |-> kpis,
          charts |-> /\ data # Null
                     /\ "bosses" \in DOMAIN data
                     /\ "weaponStats" \in DOMAIN data,
          carousels |-> data # Null /\ "bosses" \in DOMAIN data]

\* the awaited fetchDashboardData settles when the join does
JoinSettles(join) ==
    IF join.state = "fulfilled" THEN Fulfil(1, DashResult(join.value))
    ELSE IF join.state = "rejected" THEN Reject(1, join.reason)
    ELSE UNCHANGED <<hookVars, inflight, settled>>

\* one of the five calls ends as c
DashSettle(i, c) ==
    LET calls == [dash.calls EXCEPT ![i] = c]
        join == PromiseAll(dash.join, calls)
    IN  /\ dash' = [dash EXCEPT !.calls = calls, !.join = join]
        /\ IF dash.join.state = "pending"
           THEN JoinSettles(join)
           ELSE UNCHANGED <<hookVars, inflight, settled>>

\* DashboardPage.jsx lines 16-37: the effect calls execute(fetchDashboardData),
\* which starts the five calls and awaits their join
DashMount ==
    /\ ~dash.mounted
    /\ dash' = [mounted |-> TRUE,
                calls |-> [i \in 1..Len(DashboardCalls) |->
                              ServiceAwait(DashboardCalls[i].op, DashboardCalls[i].arg)],
                join |-> Pending]
    /\ execute(EmptyObj)
    /\ UNCHANGED <<pageVars, renderVars, serviceVars>>

DashRespond ==
    /\ dash.mounted
    /\ \E i \in 1..Len(DashboardCalls), shape \in DashShapes :
        /\ dash.calls[i].state = "awaiting"
        /\ DashSettle(i, ServiceReturn(dash.calls[i],
                            [status |-> 200,
                             data |-> BackendAnswer(shape, dash.calls[i].request)]))
    /\ UNCHANGED <<pageVars, renderVars, serviceVars>>

DashFail ==
    /\ dash.mounted
    /\ \E i \in 1..Len(DashboardCalls), e \in Errors :
        /\ dash.calls[i].state = "awaiting"
        /\ DashSettle(i, ServiceCatch(dash.calls[i], e))
    /\ UNCHANGED <<pageVars, renderVars, serviceVars>>

DashNext == DashMount \/ DashRespond \/ DashFail

SpecDashboard == Init /\ [][DashNext]_vars

----------------------------------------------------------------------------
(* The router shows one page at a time, each with a fetch hook of its own:  *)
(* a run follows either an explorer page or the dashboard.                  *)

AppNext ==
    \/ ~dash.mounted /\ Next
    \/ ~mounted /\ DashNext

SpecApp == Init /\ [][AppNext]_vars

----------------------------------------------------------------------------
(* Properties of the bare hook *)

Idle == inflight = <<>>
Executed == inflight # <<>> \/ settled # Null
Started == Len(inflight') > Len(inflight)
Resolved == Len(inflight') < Len(inflight)
SettledAlone(outcome) ==
    settled # Null /\ settled.outcome = outcome /\ ~settled.overlap /\ Idle
SettledLastOfOverlap(outcome) ==
    settled # Null /\ settled.outcome = outcome /\ settled.overlap /\ Idle

\* C1: for an execute call that no other call overlaps, loading is true and
\* error absent while the operation runs, and once it has succeeded with v
\* the hook holds {loading: false, data: v, error: absent}, data being v
\* itself and not a merge with the earlier payload.
C1_ExecuteSuccess ==
    /\ (Len(inflight) = 1 /\ ~inflight[1].overlap) =>
            (loading = TRUE /\ error = Null)
    /\ SettledAlone("ok") =>
            Hook = [data |-> settled.value, loading |-> FALSE, error |-> Null]

C1_Witness ==
    /\ SettledAlone("ok")
    /\ settled.before.data # Null
    /\ DOMAIN settled.before.data # DOMAIN data

\* C2: when the operation of a call that no other call overlaps has failed
\* with E, then until the next execute call the hook holds loading = false
\* and error = E, and data is what it was before the failure.
C2_ExecuteFailure ==
    SettledAlone("failed") =>
        Hook = [data |-> settled.before.data, loading |-> FALSE,
                error |-> settled.value]

C2_Witness ==
    /\ SettledAlone("failed")
    /\ data # Null

\* C3: once overlapping calls have all resolved and the one that resolved
\* last succeeded with v, the hook holds {loading: false, data: v, error:
\* absent}, also when another of the calls failed.
C3_LastResolvingWins ==
    SettledLastOfOverlap("ok") =>
        Hook = [data |-> settled.value, loading |-> FALSE, error |-> Null]

\* C4 as claimed: in every reachable state exactly one of loading,
\* data-present, error-present holds.
C4_ExactlyOne ==
    Cardinality({c \in {"loading", "data", "error"} :
        \/ c = "loading" /\ loading
        \/ c = "data" /\ data # Null
        \/ c = "error" /\ error # Null}) = 1

\* C4 as amended: once execute has been called, at least one of loading,
\* data-present, error-present holds in every state (they are not exclusive).
C4_AtLeastOne ==
    Executed => (loading \/ data # Null \/ error # Null)

C4_Witness ==
    /\ Executed
    /\ ~loading
    /\ data # Null
    /\ error # Null

\* C5 as claimed: while an operation started through execute has not
\* resolved, loading is true.
C5_PendingKeepsLoading ==
    inflight # <<>> => loading = TRUE

\* C5 as amended: while an operation that no other call overlaps has not
\* resolved, loading is true; and loading goes from true to false only in a
\* step in which a started operation resolves.
C5_HungKeepsLoading ==
    /\ []((\E i \in 1..Len(inflight) : ~inflight[i].overlap) => loading = TRUE)
    /\ [][(loading /\ ~loading') => Resolved]_vars

C5_Witness ==
    /\ Len(inflight) = 1
    /\ ~inflight[1].overlap
    /\ loading
    /\ settled # Null

----------------------------------------------------------------------------
(* Properties of the explorer page *)

HandlerRan(handler) == event' # event /\ event'.handler = handler
LastParams == inflight[Len(inflight)].params
IssuedOne == Len(inflight') = Len(inflight) + 1

\* params is exactly the filter object f together with skip and limit
IsListRequest(params, f, skip, limit) ==
    /\ DOMAIN params = DOMAIN f \cup {"skip", "limit"}
    /\ \A k \in DOMAIN f : params[k] = f[k]
    /\ params.skip = skip
    /\ params.limit = limit

\* C6: a filter submit with filter object F, from any page, replaces the
\* filters by F, sets pagination to skip = 0, limit = 20, and issues exactly
\* one list request with F, skip = 0 and limit = 20; the current page is 1
\* afterwards.
C6_FilterSubmit ==
    [][HandlerRan("handleFilterChange") =>
        /\ filters' = event'.arg
        /\ pagination' = [skip |-> 0, limit |-> 20]
        /\ IssuedOne
        /\ IsListRequest(LastParams', event'.arg, 0, 20)
        /\ currentPage' = 1]_vars

C6_Witness ==
    /\ event.handler = "handleFilterChange"
    /\ event.fromPage = 3
    /\ "name" \in DOMAIN event.arg
    /\ loading
    /\ currentPage = 1

\* C7: a page change to page n sets skip = (n-1) * limit, leaves filters and
\* limit unchanged, and issues one list request with the filters of the most
\* recent filter submit ({} if none), the new skip and the limit.
C7_PageChange ==
    [][HandlerRan("handlePageChange") =>
        /\ pagination'.skip = (event'.arg - 1) * pagination.limit
        /\ pagination'.limit = pagination.limit
        /\ filters' = filters
        /\ IssuedOne
        /\ IsListRequest(LastParams', event.submitted,
                         (event'.arg - 1) * pagination.limit, pagination.limit)]_vars

C7_Witness ==
    /\ event.handler = "handlePageChange"
    /\ event.arg = 3
    /\ event.submitted # EmptyObj
    /\ loading
    /\ pagination.skip = 40

\* C8: mounting the page issues exactly one list request, with no filter and
\* skip = 0, limit = 20, and nothing but a later filter submit or page change
\* issues another one: the mount effect runs once, as the first event.
C8_MountFetchesOnce ==
    [][/\ HandlerRan("useEffect") =>
            /\ event.handler = "none"
            /\ inflight = <<>>
            /\ IssuedOne
            /\ IsListRequest(LastParams', EmptyObj, 0, 20)
       /\ Started =>
            /\ event' # event
            /\ event'.handler \in {"useEffect", "handleFilterChange", "handlePageChange"}
       /\ Resolved => ~MountEffectDue']_vars

C8_Witness ==
    /\ event.handler = "useEffect"
    /\ ~loading
    /\ settled # Null
    /\ settled.outcome = "ok"
    /\ data # Null
    /\ inflight = <<>>

\* C9: in the content view currentPage = floor(skip/limit) + 1 and
\* totalPages = ceil(total/limit), where total is the payload's total field
\* (0 when it is absent) and not the number of items; total 0 or absent gives
\* 0 pages and total 12 with limit 20 gives 1 page.
C9_DerivedPages ==
    Interactive =>
        LET limit == pagination.limit
            total == IF data # Null /\ "total" \in DOMAIN data THEN data.total ELSE 0
        IN  /\ (currentPage - 1) * limit <= pagination.skip
            /\ pagination.skip < currentPage * limit
            /\ totalPages * limit >= total
            /\ (totalPages - 1) * limit < total
            /\ total = 0 => totalPages = 0
            /\ (total = 12 /\ limit = 20) => totalPages = 1

C9_Witness ==
    /\ Interactive
    /\ data # Null
    /\ "total" \in DOMAIN data
    /\ data.total = 41
    /\ Len(data.items) = 20
    /\ currentPage = 2
    /\ totalPages = 3

\* C10: the controls are shown only when totalPages > 1 and a page change
\* comes only from an enabled button (Previous not on page 1, Next not on the
\* last page); so skip is always a non-negative multiple of limit and
\* whenever the controls are shown 1 <= currentPage <= totalPages.
C10_PageWithinRange ==
    /\ [](/\ pagination.skip >= 0
          /\ pagination.skip % pagination.limit = 0
          /\ ControlsShown => (1 <= currentPage /\ currentPage <= totalPages))
    /\ [][HandlerRan("handlePageChange") =>
            /\ event'.shown /\ event'.pages > 1
            /\ event'.arg \in {event'.fromPage - 1, event'.fromPage + 1}
            /\ 1 <= event'.arg /\ event'.arg <= event'.pages]_vars

C10_Witness ==
    /\ ControlsShown
    /\ event.handler = "handlePageChange"
    /\ currentPage = 3
    /\ currentPage = totalPages
    /\ NextDisabled

\* C11: a mounted explorer page renders exactly one of the spinner (exactly
\* when loading), the error line (exactly when not loading and error is
\* present) and otherwise the grid, with its cards or its "no results"
\* message; a page neither loading nor in error always renders the grid.
C11_ThreeViews ==
    mounted =>
        /\ PageRender.view = "spinner" <=> loading
        /\ PageRender.view = "error" <=> (~loading /\ error # Null)
        /\ (~loading /\ error = Null) =>
                /\ "grid" \in DOMAIN PageRender
                /\ PageRender.grid.noResults <=> PageRender.grid.cards = <<>>

IsBlank(t) == \A i \in 1..Len(t) : t[i] = " "
Blanks(n) == [i \in 1..n |-> " "]

\* f is what a submit of the text t has to emit
EmitsTrimmed(f, t) ==
    IF IsBlank(t) THEN f = EmptyObj
    ELSE /\ DOMAIN f = {"name"}
         /\ f.name # <<>>
         /\ f.name[1] # " "
         /\ f.name[Len(f.name)] # " "
         /\ \E a, b \in 0..Len(t) : t = Blanks(a) \o f.name \o Blanks(b)

\* C12: an explicit submit (button or Enter key) of the text t emits
\* onFilterChange({name: trim(t)}) when trim(t) is not empty and
\* onFilterChange({}) when t is empty or blank; the emitted name has no
\* leading or trailing whitespace.
C12_SubmitEmitsTrimmed ==
    [][(FilterSearch \/ (FilterKeyPress /\ event' # event)) =>
        /\ HandlerRan("handleFilterChange")
        /\ EmitsTrimmed(event'.arg, searchTerm)
        /\ filters' = event'.arg]_vars

C12_Witness ==
    /\ event.handler = "handleFilterChange"
    /\ event.text = <<" ", "a">>
    /\ event.arg = [name |-> <<"a">>]
    /\ filters = [name |-> <<"a">>]
    /\ loading

\* C13: typing changes only the filter's local text (no request, no change
\* of filters, pagination or fetch state); onFilterChange is emitted only
\* by a submit or a clear, and a clear empties the text and emits {}.
C13_SubmitGated ==
    [][/\ (searchTerm' # searchTerm /\ searchTerm' # <<>>) =>
            UNCHANGED <<data, loading, error, inflight, filters, pagination,
                        event, backend>>
       /\ HandlerRan("handleFilterChange") =>
            /\ Interactive
            /\ \/ event'.arg = cleanFilters
               \/ searchTerm # <<>> /\ event'.arg = EmptyObj
       /\ FilterClear =>
            /\ searchTerm' = <<>>
            /\ event'.arg = EmptyObj
            /\ filters' = EmptyObj]_vars

C13_Witness ==
    /\ Interactive
    /\ searchTerm = <<"a", "a">>
    /\ filters = EmptyObj
    /\ event.handler = "useEffect"
    /\ inflight = <<>>

----------------------------------------------------------------------------
(* Properties of the service layer *)

AllCalls == {http[i] : i \in 1..Len(http)} \cup {served[i] : i \in 1..Len(served)}

\* C18: every service operation makes exactly one HTTP request per call, and
\* when that request fails the call throws the very error the adapter
\* raised: no retry, no fallback value, no partial payload.
C18_OneRequestErrorsPropagate ==
    \A c \in AllCalls :
        /\ c.sent = 1
        /\ "raised" \in DOMAIN c => (c.state = "thrown" /\ c.result = c.raised)
        /\ c.state = "returned" => c.result = c.response.data

C18_Witness ==
    /\ Len(served) = 2
    /\ served[1].state = "thrown"
    /\ served[2].state = "returned"
    /\ served[1].op = served[2].op

----------------------------------------------------------------------------
(* Properties of the presentational components *)

Elements(seq) == {seq[i] : i \in 1..Len(seq)}
Rendered(component) == rendered # Null /\ rendered.component = component

\* C16: a boss record is in the "great rune" carousel iff has_great_rune is
\* exactly the boolean true, and in the "remembrance" carousel iff
\* has_remembrance is exactly the boolean true; "true", "false" or 1 do not
\* qualify.
C16_StrictBooleanCarousels ==
    Rendered("BossCarousels") =>
        \A boss \in Elements(bossesArray(props)) :
            /\ boss \in Elements(rendered.out.greatRuneBosses)
                    <=> boss.has_great_rune = "bool:true"
            /\ boss \in Elements(rendered.out.remembranceBosses)
                    <=> boss.has_remembrance = "bool:true"

\* C17: the tier distribution of a boss list has one entry per distinct
\* boss_tier, a missing (absent or empty) tier counting as 'Unknown'; each
\* entry's value is the number of bosses of that tier and the values sum to
\* the length of the list.
C17_TierDistribution ==
    (Rendered("AnalyticsCharts") /\ IsArray(props)) =>
        LET list == props.items
            pie == rendered.out
            Tier(i) == IF list[i].boss_tier \in {"undefined", "str:"}
                       THEN "str:Unknown" ELSE list[i].boss_tier
            Sum[n \in 0..Len(pie)] == IF n = 0 THEN 0 ELSE Sum[n - 1] + pie[n].value
        IN  /\ \A i, j \in 1..Len(pie) : pie[i].name = pie[j].name => i = j
            /\ {pie[i].name : i \in 1..Len(pie)} = {Tier(i) : i \in 1..Len(list)}
            /\ \A k \in 1..Len(pie) :
                    pie[k].value =
                        Cardinality({i \in 1..Len(list) : Tier(i) = pie[k].name})
            /\ Sum[Len(pie)] = Len(list)

C17_Witness ==
    /\ Rendered("AnalyticsCharts")
    /\ IsArray(props)
    /\ Len(props.items) = 2
    /\ props.items[1].boss_tier = "undefined"
    /\ props.items[2].boss_tier = "str:Unknown"
    /\ rendered.out = <<[name |-> "str:Unknown", value |-> 2]>>

\* C20: a grid given an absent or empty list renders its "no results"
\* message and no card; given a non-empty list it renders one card per item,
\* in the order of the list, and no "no results" message.
C20_GridEmptyOrCards ==
    Rendered("Grid") =>
        IF "items" \notin DOMAIN props \/ props.items = <<>>
        THEN rendered.out.noResults /\ rendered.out.cards = <<>>
        ELSE /\ ~rendered.out.noResults
             /\ Len(rendered.out.cards) = Len(props.items)
             /\ \A i \in 1..Len(props.items) :
                    rendered.out.cards[i] = props.items[i]

C20_Witness ==
    /\ Rendered("Grid")
    /\ "items" \in DOMAIN props
    /\ Len(props.items) = 2
    /\ props.items[1] # props.items[2]
    /\ rendered.out.cards = props.items

----------------------------------------------------------------------------
(* Properties of the dashboard *)

DashCall(i) == dash.calls[i]
AllOf(state) == dash.mounted /\ \A i \in 1..5 : DashCall(i).state = state
SomeThrown == dash.mounted /\ \E i \in 1..5 : DashCall(i).state = "thrown"

\* C14: once any of the five dashboard requests has failed, whatever the
\* other four have done or do later and in whatever order, the joined
\* operation has failed and the dashboard shows one error state: no KPI
\* card, no chart, no carousel, and no data of the calls that succeeded.
C14_AllOrNothing ==
    SomeThrown =>
        /\ dash.join.state = "rejected"
        /\ inflight = <<>>
        /\ data = Null
        /\ DOMAIN DashRender = {"view", "message"}
        /\ DashRender.view = "error"
        /\ \E i \in 1..5 :
            /\ DashCall(i).state = "thrown"
            /\ DashRender.message = DashCall(i).raised.message

C14_Witness ==
    /\ dash.mounted
    /\ \A i \in {1, 2, 4, 5} : DashCall(i).state = "returned"
    /\ DashCall(3).state = "thrown"
    /\ DashRender.view = "error"

\* C15: mounting the dashboard issues the five requests (weapons limit=1,
\* bosses limit=500, armors limit=1, classes limit=1, weapon statistics) in
\* one step, all in flight before any is answered, each sent once and never
\* again, as one operation of the fetch hook; and once all five have
\* succeeded, in whatever order, the four KPI values are the total fields of
\* the weapons, bosses, armors and classes responses, in that order.
C15_FiveRequestsOnceKpisAreTotals ==
    /\ [](dash.mounted =>
            /\ Len(dash.calls) = 5
            /\ \A i \in 1..5 : DashCall(i).sent = 1
            /\ DashCall(1).request =
                 [method |-> "GET", path |-> <<"/weapons">>, params |-> [limit |-> 1]]
            /\ DashCall(2).request =
                 [method |-> "GET", path |-> <<"/bosses">>, params |-> [limit |-> 500]]
            /\ DashCall(3).request =
                 [method |-> "GET", path |-> <<"/armors">>, params |-> [limit |-> 1]]
            /\ DashCall(4).request =
                 [method |-> "GET", path |-> <<"/classes">>, params |-> [limit |-> 1]]
            /\ DashCall(5).request =
                 [method |-> "GET", path |-> <<"/weapons", "/statistics">>]
            /\ Len(inflight) = IF dash.join.state = "pending" THEN 1 ELSE 0)
    /\ [](AllOf("returned") =>
            /\ DashRender.view = "content"
            /\ Len(DashRender.kpis) = 4
            /\ \A k \in 1..4 :
                LET payload == DashCall(k).response.data
                    kpi == DashRender.kpis[k]
                IN  IF "total" \in DOMAIN payload
                    THEN "value" \in DOMAIN kpi /\ kpi.value = payload.total
                    ELSE "value" \notin DOMAIN kpi)
    /\ [][/\ (~dash.mounted /\ dash'.mounted) =>
                (AllOf("awaiting")' /\ inflight = <<>> /\ loading')
          /\ dash.mounted =>
                /\ dash'.mounted
                /\ Len(inflight') <= Len(inflight)
                /\ \A i \in 1..5 : DashCall(i).request = DashCall(i)'.request]_vars

C15_Witness ==
    /\ AllOf("returned")
    /\ settled # Null
    /\ settled.outcome = "ok"
    /\ DashRender.view = "content"
    /\ DashRender.kpis = <<[title |-> "Total de Armas", value |-> 12],
                           [title |-> "Total de Jefes", value |-> 41],
                           [title |-> "Total de Armaduras", value |-> 41],
                           [title |-> "Total de Clases", value |-> 12]>>

----------------------------------------------------------------------------
(* Properties of api.js *)

EnvHasBaseUrl == "VITE_API_BASE_URL" \in DOMAIN api.env

\* C21: the base URL is read once, when api.js is loaded, from the
\* environment value and never changes afterwards; when the value is absent
\* loading fails: no client is created and no request is ever issued.
C21_BaseUrlFailFast ==
    /\ [](api.loaded =>
            IF EnvHasBaseUrl
            THEN /\ "client" \in DOMAIN api
                 /\ "baseURL" \in DOMAIN api.client
                 /\ api.client.baseURL = api.env.VITE_API_BASE_URL
            ELSE /\ "client" \notin DOMAIN api
                 /\ http = <<>>
                 /\ served = <<>>)
    /\ [][api.loaded => api' = api]_vars

----------------------------------------------------------------------------
(* Properties of a page over its whole mount *)

\* C22: on an explorer page at most one list request is in flight: loading
\* is true exactly when a request is in flight, while it is true the page
\* renders the spinner alone (no filter, no pagination buttons), and no
\* handler runs and no request starts until the one in flight has resolved.
C22_OneRequestInFlight ==
    /\ [](/\ Len(inflight) <= 1
          /\ loading <=> inflight # <<>>
          /\ loading => /\ PageRender = [view |-> "spinner"]
                        /\ ~Interactive
                        /\ ~ControlsShown
                        /\ ~ClearShown)
    /\ [][inflight # <<>> => (event' = event /\ ~Started)]_vars

C22_Witness ==
    /\ event.handler = "handlePageChange"
    /\ loading
    /\ Len(inflight) = 1
    /\ data # Null
    /\ filters # EmptyObj

\* C23: whenever the page shows its content view with data present, the
\* data is the response to the request made with the page's current filters
\* and current skip and limit, and the items shown are those of the page
\* displayed.
C23_ShownDataIsCurrent ==
    (mounted /\ View = "content" /\ data # Null) =>
        /\ settled # Null
        /\ settled.outcome = "ok"
        /\ data = settled.value
        /\ IsListRequest(settled.params, filters, pagination.skip, pagination.limit)
        /\ "items" \in DOMAIN data =>
              \A i \in 1..Len(data.items) : data.items[i] = pagination.skip + i

C23_Witness ==
    /\ mounted
    /\ View = "content"
    /\ data # Null
    /\ filters = [name |-> <<"a">>]
    /\ pagination.skip = 20
    /\ "items" \in DOMAIN data
    /\ Len(data.items) > 0
    /\ data.items[1] = 21

ErrorLine == [view |-> "error", message |-> error.message]

\* C24: once a fetch of an explorer page or of the dashboard has failed,
\* the page renders the error line alone (no filter, no pagination buttons)
\* and, for the rest of the mount, error stays as it is, no handler runs and
\* no request is issued.
C24_ErrorAbsorbing ==
    /\ [](error # Null =>
            /\ ~loading
            /\ inflight = <<>>
            /\ settled # Null /\ settled.outcome = "failed" /\ error = settled.value
            /\ mounted => (PageRender = ErrorLine /\ ~Interactive
                            /\ ~ControlsShown /\ ~ClearShown)
            /\ dash.mounted => DashRender = ErrorLine)
    /\ [][error # Null =>
            /\ error' = error
            /\ inflight' = <<>>
            /\ event' = event
            /\ dash.mounted =>
                 \A i \in 1..5 : /\ dash'.calls[i].request = dash.calls[i].request
                                 /\ dash'.calls[i].sent = dash.calls[i].sent]_vars

C24_Witness ==
    /\ mounted
    /\ error # Null
    /\ event.handler = "handlePageChange"
    /\ data # Null
    /\ PageRender = ErrorLine

\* C25: the filter's text does not survive a fetch: when the fetch of a
\* submit with name X succeeds, the filter is shown again with empty text
\* and without its clear button while the applied filters are still
\* {name: X}; and a submit made with empty text emits {} and leaves no
\* filter applied.
C25_TextLostOnFetch ==
    [][/\ (/\ Resolved
           /\ View' = "content"
           /\ event.handler = "handleFilterChange"
           /\ "name" \in DOMAIN event.arg) =>
                /\ searchTerm' = <<>>
                /\ ~ClearShown'
                /\ filters' = [name |-> event.arg.name]
       /\ (HandlerRan("handleFilterChange") /\ searchTerm = <<>>) =>
                /\ event'.arg = EmptyObj
                /\ filters' = EmptyObj
                /\ IsListRequest(LastParams', EmptyObj, 0, 20)]_vars

C25_Witness ==
    /\ Interactive
    /\ event.handler = "handleFilterChange"
    /\ event.arg = [name |-> <<"a">>]
    /\ filters = event.arg
    /\ searchTerm = <<>>
    /\ settled # Null
    /\ settled.outcome = "ok"

====
